---- MODULE Spec2Model ----
(***************************************************************************)
(* Model of libdispatch/ds3util.c (netcdf-c): canonicalisation of S3 and   *)
(* Google-S3 URLs (NC_s3urlrebuild), construction of the NCS3INFO          *)
(* descriptor (NC_s3urlprocess), the service predicate (NC_iss3) and the   *)
(* descriptor lifecycle helpers (NC_s3clone, NC_s3clear).                  *)
(*                                                                         *)
(* C strings are TLA+ strings, inspected character by character with       *)
(* SubSeq(s,i,i).  A pointer that may be NULL is a sequence of length at   *)
(* most one: NULL is << >> and a pointer to v is <<v>>.  The string fields *)
(* of a descriptor are addresses into a heap of allocated strings (0 is    *)
(* the null address), so that sharing and freeing are observable.          *)
(* malloc/strdup are taken to succeed, and callers pass non-null output     *)
(* slots (newurlp, news3p).                                                *)
(***************************************************************************)
EXTENDS Integers, Sequences, FiniteSets, TLC

\* ---------------------------------------------------------------- constants
AWSHOST == ".amazonaws.com"
GOOGLEHOST == "storage.googleapis.com"

NC_NOERR == "NC_NOERR"
NC_EURL == "NC_EURL"
NC_ENOMEM == "NC_ENOMEM"
NC_ES3 == "NC_ES3"
NC_EINVAL == "NC_EINVAL"

NCS3UNK == "NCS3UNK"
NCS3 == "NCS3"
NCS3GS == "NCS3GS"

NULL == << >>
Ptr(v) == <<v>>
Deref(p) == p[1]

\* Body applied to the value of e, which is evaluated once
Bind(e, Body(_)) == CHOOSE y \in {Body(x) : x \in {e}} : TRUE

\* ------------------------------------------------------------ C string ops
CharAt(s, i) == SubSeq(s, i, i)

UpperChars == "ABCDEFGHIJKLMNOPQRSTUVWXYZ"
LowerChars == "abcdefghijklmnopqrstuvwxyz"

tolower(c) ==
  IF \E i \in 1..Len(UpperChars) : CharAt(UpperChars, i) = c
  THEN CharAt(LowerChars, CHOOSE i \in 1..Len(UpperChars) : CharAt(UpperChars, i) = c)
  ELSE c

RECURSIVE LowerString(_)
LowerString(s) ==
  IF Len(s) = 0 THEN "" ELSE tolower(CharAt(s, 1)) \o LowerString(Tail(s))

\* strcmp / strcasecmp: 0 when equal, non-zero otherwise
strcmp(a, b) == IF a = b THEN 0 ELSE 1
strcasecmp(a, b) == IF LowerString(a) = LowerString(b) THEN 0 ELSE 1

\* static int endswith(const char* s, const char* suffix); s, suffix nullable
endswith(s, suffix) ==
  IF s = NULL \/ suffix = NULL THEN 0
  ELSE LET ls == Len(Deref(s))
           lsf == Len(Deref(suffix))
           delta == ls - lsf
       IN IF delta < 0 THEN 0
          ELSE IF SubSeq(Deref(s), delta + 1, ls) # Deref(suffix) THEN 0
          ELSE 1

\* --------------------------------------------------- NC_split_delim, NC_join
\* index of the first delim at or after position p, Len(s)+1 when there is none
RECURSIVE strchr(_, _, _)
strchr(s, p, delim) ==
  IF p > Len(s) THEN Len(s) + 1
  ELSE IF CharAt(s, p) = delim THEN p
  ELSE strchr(s, p + 1, delim)

RECURSIVE SplitLoop(_, _, _, _)
SplitLoop(s, p, delim, segments) ==
  IF p > Len(s) THEN [stat |-> NC_NOERR, list |-> segments]
  ELSE LET q == strchr(s, p, delim)
           len == q - p
       IN IF len = 0 THEN [stat |-> NC_EURL, list |-> segments]
          ELSE SplitLoop(s, IF q <= Len(s) THEN q + 1 ELSE q, delim,
                         Append(segments, SubSeq(s, p, q - 1)))

\* int NC_split_delim(const char* arg, char delim, NClist* segments)
NC_split_delim(arg, delim, segments) ==
  IF arg = NULL \/ Len(Deref(arg)) = 0 THEN [stat |-> NC_NOERR, list |-> segments]
  ELSE SplitLoop(Deref(arg), IF CharAt(Deref(arg), 1) = delim THEN 2 ELSE 1,
                 delim, segments)

\* slash-join of a segment list; the empty string for an empty list
RECURSIVE NC_join(_)
NC_join(segments) ==
  IF Len(segments) = 0 THEN ""
  ELSE IF Len(segments) = 1 THEN segments[1]
  ELSE segments[1] \o "/" \o NC_join(Tail(segments))

\* nclistremove(l, i): the list without its element at 0-based index i
nclistremove(l, i) == SubSeq(l, 1, i) \o SubSeq(l, i + 2, Len(l))
nclistget(l, i) == l[i + 1]
nclistlength(l) == Len(l)

\* ------------------------------------------------------------------- heap
\* The heap is the sequence of string allocations made so far; an address is
\* an index into it and 0 is the null address.
NIL == 0
Alloc(h, str) == Append(h, [live |-> TRUE, s |-> str])
Top(h) == Len(h)
\* nullfree(p)
nullfree(h, p) == IF p = NIL THEN h ELSE [h EXCEPT ![p].live = FALSE]
\* the C string at address p as a nullable string
Str(h, p) == IF p = NIL THEN NULL ELSE Ptr(h[p].s)

\* ----------------------------------------------------------- ncuri (NCURI)
\* ncuriclone, then ncurisetprotocol/ncurisethost/ncurisetpath/ncurirebuild
ncuriclone(u) == u
ncurisetprotocol(u, protocol) == [u EXCEPT !.protocol = protocol]
ncurisethost(u, host) == [u EXCEPT !.host = Ptr(host)]
ncurisetpath(u, path) == [u EXCEPT !.path = Ptr(path)]

\* NC_testmode(uri, tag): is tag in the uri's mode list
NC_testmode(u, tag) == \E i \in 1..Len(u.mode) : u.mode[i] = tag

\* ------------------------------------------------------- NC_s3urlrebuild
\* lines 95-143: reduce the host to standard form, pulling the region and the
\* bucket out of it.  u is the (non-null) url, hostsegments its host labels.
ClassifyHost(u, hostsegments) ==
  LET none == [stat |-> NC_NOERR, bucket |-> NULL, region |-> NULL,
               host |-> NULL, svc |-> NCS3UNK]
      n == nclistlength(hostsegments)
  IN IF strcmp(u.protocol, "s3") = 0 /\ n = 1                    \* Format (5)
       THEN [none EXCEPT !.bucket = Ptr(nclistget(hostsegments, 0)), !.svc = NCS3]
     ELSE IF strcmp(u.protocol, "gs3") = 0 /\ n = 1              \* Format (7)
       THEN [none EXCEPT !.bucket = Ptr(nclistget(hostsegments, 0)), !.svc = NCS3GS]
     ELSE IF endswith(u.host, Ptr(AWSHOST)) = 1                  \* Virtual or path
       THEN CASE n = 3 -> [none EXCEPT !.svc = NCS3]             \* Format (4)
              [] n = 4 ->                                        \* Format (2) or (3)
                   IF strcasecmp(nclistget(hostsegments, 0), "s3") # 0
                     THEN [none EXCEPT !.svc = NCS3,
                                       !.bucket = Ptr(nclistget(hostsegments, 0))]
                   ELSE IF strcasecmp(nclistget(hostsegments, 0), "s3") = 0
                     THEN [none EXCEPT !.svc = NCS3,
                                       !.region = Ptr(nclistget(hostsegments, 1))]
                   ELSE [none EXCEPT !.svc = NCS3, !.stat = NC_EURL]
              [] n = 5 ->                                        \* Format (1)
                   IF strcasecmp(nclistget(hostsegments, 1), "s3") # 0
                     THEN [none EXCEPT !.svc = NCS3, !.stat = NC_EURL]
                   ELSE [none EXCEPT !.svc = NCS3,
                           !.region = Ptr(nclistget(hostsegments, 2)),
                           !.bucket = Ptr(nclistget(nclistremove(hostsegments, 2), 0))]
              [] OTHER -> [none EXCEPT !.svc = NCS3, !.stat = NC_EURL]
     ELSE IF strcasecmp(Deref(u.host), GOOGLEHOST) = 0           \* Google (6)
       THEN [none EXCEPT !.host = u.host, !.svc = NCS3GS]
     ELSE [none EXCEPT !.host = u.host]                          \* Format (8)

\* NC_getdefaults3region(url,&region0) and NC_getactives3profile(url,&profile0):
\* lookups in the process-wide configuration rc, which records what each yields
NC_getdefaults3region(rc) == rc.defaults3region
NC_getactives3profile(rc) == rc.actives3profile

\* ResolveRegion with the descriptor's region taken before the url's
ResolveRegion_PriorFirst(region, s3, h, rc) ==
  LET prior == IF s3 # NULL THEN Str(h, Deref(s3).region) ELSE NULL
      r1 == IF prior # NULL THEN prior ELSE region
      d == NC_getdefaults3region(rc)
  IN IF r1 # NULL THEN [stat |-> NC_NOERR, region |-> r1]
     ELSE IF d.stat # NC_NOERR THEN [stat |-> d.stat, region |-> NULL]
     ELSE IF d.region0 = NULL THEN [stat |-> NC_ES3, region |-> NULL]
     ELSE [stat |-> NC_NOERR, region |-> d.region0]

\* lines 145-154: region = (1) from url, (2) s3->region, (3) default
ResolveRegion(region, s3, h, rc) ==
  LET r1 == IF region = NULL /\ s3 # NULL THEN Str(h, Deref(s3).region) ELSE region
      d == NC_getdefaults3region(rc)
  IN IF r1 # NULL THEN [stat |-> NC_NOERR, region |-> r1]
     ELSE IF d.stat # NC_NOERR THEN [stat |-> d.stat, region |-> NULL]
     ELSE IF d.region0 = NULL THEN [stat |-> NC_ES3, region |-> NULL]
     ELSE [stat |-> NC_NOERR, region |-> d.region0]

\* lines 156-162: bucket = (1) from url host, (2) first path segment, (3) s3->bucket
ResolveBucket(bucket, pathsegments, s3, h) ==
  LET frompath == bucket = NULL /\ nclistlength(pathsegments) > 0
      b1 == IF frompath THEN Ptr(nclistget(pathsegments, 0)) ELSE bucket
      p1 == IF frompath THEN nclistremove(pathsegments, 0) ELSE pathsegments
      b2 == IF b1 = NULL /\ s3 # NULL THEN Str(h, Deref(s3).bucket) ELSE b1
  IN [stat |-> IF b2 = NULL THEN NC_ES3 ELSE NC_NOERR,
      bucket |-> b2, pathsegments |-> p1]

\* lines 164-175: the revised host
CanonHost(svc, region, host) ==
  IF svc = NCS3 THEN Ptr("s3." \o Deref(region) \o AWSHOST)
  ELSE IF svc = NCS3GS THEN Ptr(GOOGLEHOST)
  ELSE host

\* lines 179-188: the revised path
RECURSIVE CatSegments(_, _)
CatSegments(buf, pathsegments) ==
  IF Len(pathsegments) = 0 THEN buf
  ELSE CatSegments(buf \o "/" \o Head(pathsegments), Tail(pathsegments))

\* CanonPath with the path segments appended in reverse order
CanonPath_Reversed(bucket, pathsegments) ==
  CatSegments(IF bucket # NULL THEN "/" \o Deref(bucket) ELSE "",
              [i \in 1..Len(pathsegments) |-> pathsegments[Len(pathsegments) + 1 - i]])

CanonPath(bucket, pathsegments) ==
  CatSegments(IF bucket # NULL THEN "/" \o Deref(bucket) ELSE "", pathsegments)

\* lines 203-208: hand the results to the caller
StoreResult(s3, h, bucket, region, svc) ==
  IF s3 = NULL THEN [s3 |-> s3, heap |-> h]
  ELSE LET h1 == Alloc(h, Deref(bucket))
           h2 == Alloc(h1, Deref(region))
       IN [s3 |-> Ptr([Deref(s3) EXCEPT !.bucket = Top(h1), !.region = Top(h2),
                                        !.svc = svc]),
           heap |-> h2]

\* what a failed call hands back: the status, and nothing else changed
Failed(st, s3, h) == [stat |-> st, newurl |-> NULL, s3 |-> s3, heap |-> h]

\* lines 164-208: build the new url and return the results
Complete(u, s3, h, svc, host, region, b) ==
  Bind(StoreResult(s3, h, b.bucket, region, svc), LAMBDA out :
    [stat |-> NC_NOERR,
     newurl |-> Ptr(ncurisetpath(
                      ncurisethost(ncurisetprotocol(ncuriclone(u), "https"),
                                   Deref(CanonHost(svc, region, host))),
                      CanonPath(b.bucket, b.pathsegments))),
     s3 |-> out.s3, heap |-> out.heap])

\* int NC_s3urlrebuild(NCURI* url, NCS3INFO* s3, NCURI** newurlp)
\* yields the status, *newurlp, the descriptor and the heap after the call
NC_s3urlrebuild(url, s3, h, rc) ==
  IF url = NULL THEN Failed(NC_EURL, s3, h)
  ELSE
  Bind(NC_split_delim(Deref(url).host, ".", << >>), LAMBDA hs :
  IF hs.stat # NC_NOERR THEN Failed(hs.stat, s3, h)
  ELSE
  Bind(NC_split_delim(Deref(url).path, "/", << >>), LAMBDA ps :
  IF ps.stat # NC_NOERR THEN Failed(ps.stat, s3, h)
  ELSE IF Deref(url).host = NULL \/ Len(Deref(Deref(url).host)) = 0
    THEN Failed(NC_EURL, s3, h)
  ELSE
  Bind(ClassifyHost(Deref(url), hs.list), LAMBDA c :
  IF c.stat # NC_NOERR THEN Failed(c.stat, s3, h)
  ELSE
  Bind(ResolveRegion(c.region, s3, h, rc), LAMBDA r :
  IF r.stat # NC_NOERR THEN Failed(r.stat, s3, h)
  ELSE
  Bind(ResolveBucket(c.bucket, ps.list, s3, h), LAMBDA b :
  IF b.stat # NC_NOERR THEN Failed(b.stat, s3, h)
  ELSE Complete(Deref(url), s3, h, c.svc, c.host, r.region, b))))))

\* ------------------------------------------------------- NC_s3urlprocess
\* RootSegments with the bucket segment left in place
RootSegments_KeepBucket(pathsegments) == pathsegments

\* lines 258-261: drop the leading bucket segment
RootSegments(pathsegments) ==
  IF nclistlength(pathsegments) > 0 THEN nclistremove(pathsegments, 0)
  ELSE pathsegments

\* lines 254-263: after the rebuild, set the host and the rootkey
Finish(r) ==
  Bind(Alloc(r.heap, Deref(Deref(r.newurl).host)), LAMBDA h2 :
  Bind(Ptr([Deref(r.s3) EXCEPT !.host = Top(h2)]), LAMBDA s3b :
  Bind(NC_split_delim(Deref(r.newurl).path, "/", << >>), LAMBDA ps :
  IF ps.stat # NC_NOERR THEN Failed(ps.stat, s3b, h2)
  ELSE Bind(Alloc(h2, NC_join(RootSegments(ps.list))), LAMBDA h3 :
         [stat |-> NC_NOERR, newurl |-> r.newurl,
          s3 |-> Ptr([Deref(s3b) EXCEPT !.rootkey = Top(h3)]), heap |-> h3]))))

\* int NC_s3urlprocess(NCURI* url, NCS3INFO* s3, NCURI** newurlp)
NC_s3urlprocess(url, s3, h, rc) ==
  IF url = NULL \/ s3 = NULL THEN Failed(NC_EURL, s3, h)
  ELSE
  Bind(NC_getactives3profile(rc), LAMBDA p :
  IF p.stat # NC_NOERR THEN Failed(p.stat, s3, h)
  ELSE
  Bind(Alloc(h, IF p.profile0 = NULL THEN "no" ELSE Deref(p.profile0)), LAMBDA h1 :
  Bind(NC_s3urlrebuild(url, Ptr([Deref(s3) EXCEPT !.profile = Top(h1)]), h1, rc),
       LAMBDA r :
  IF r.stat # NC_NOERR THEN Failed(r.stat, r.s3, r.heap)
  ELSE Finish(r))))

\* ------------------------------------------------- NC_s3clone, NC_s3clear
Fields == <<"host", "region", "bucket", "rootkey", "profile">>

\* calloc(1,sizeof(NCS3INFO))
calloc == [host |-> NIL, region |-> NIL, bucket |-> NIL, rootkey |-> NIL,
           profile |-> NIL, svc |-> NCS3UNK]

\* nulldup(s): NULL for NULL, else a fresh copy; yields the address and the heap
nulldup(h, p) ==
  IF p = NIL THEN [addr |-> NIL, heap |-> h]
  ELSE [addr |-> Len(h) + 1, heap |-> Alloc(h, h[p].s)]

\* lines 278-282: the field copies, in order, each returning NC_ENOMEM when
\* its nulldup yields NULL
RECURSIVE CloneFields(_, _, _, _)
CloneFields(old, new, h, i) ==
  IF i > Len(Fields) THEN [stat |-> NC_NOERR, news3 |-> new, heap |-> h]
  ELSE LET d == nulldup(h, old[Fields[i]])
       IN IF d.addr = NIL THEN [stat |-> NC_ENOMEM, news3 |-> new, heap |-> d.heap]
          ELSE CloneFields(old, [new EXCEPT ![Fields[i]] = d.addr], d.heap, i + 1)

\* int NC_s3clone(NCS3INFO* s3, NCS3INFO** news3p), news3p # NULL.
\* out is *news3p after the call (prev, its value before, when it is not set)
NC_s3clone(s3, prev, h) ==
  IF s3 = NULL THEN [stat |-> NC_NOERR, out |-> NULL, heap |-> h]
  ELSE LET c == CloneFields(Deref(s3), calloc, h, 1)
       IN IF c.stat # NC_NOERR THEN [stat |-> c.stat, out |-> prev, heap |-> c.heap]
          ELSE [stat |-> NC_NOERR, out |-> Ptr(c.news3), heap |-> c.heap]

RECURSIVE FreeFields(_, _, _)
FreeFields(d, h, i) ==
  IF i > Len(Fields) THEN h
  ELSE FreeFields(d, nullfree(h, d[Fields[i]]), i + 1)

\* int NC_s3clear(NCS3INFO* s3)
NC_s3clear(s3, h) ==
  IF s3 = NULL THEN [s3 |-> s3, heap |-> h]
  ELSE [s3 |-> Ptr([Deref(s3) EXCEPT !.host = NIL, !.region = NIL, !.bucket = NIL,
                                     !.rootkey = NIL, !.profile = NIL]),
        heap |-> FreeFields(Deref(s3), h, 1)]

\* ----------------------------------------------------------------- NC_iss3
\* NC_iss3 with the scheme compared case-sensitively
NC_iss3_CaseSensitive(uri) ==
  IF uri = NULL THEN 0
  ELSE LET u == Deref(uri)
       IN IF strcmp(u.protocol, "s3") = 0 THEN 1
          ELSE IF strcmp(u.protocol, "gs3") = 0 THEN 1
          ELSE IF NC_testmode(u, "s3") THEN 1
          ELSE IF NC_testmode(u, "gs3") THEN 1
          ELSE IF u.host # NULL /\ endswith(u.host, Ptr(AWSHOST)) = 1 THEN 1
          ELSE IF u.host # NULL /\ strcasecmp(Deref(u.host), GOOGLEHOST) = 0 THEN 1
          ELSE 0

\* int NC_iss3(NCURI* uri)
NC_iss3(uri) ==
  IF uri = NULL THEN 0
  ELSE LET u == Deref(uri)
       IN IF strcasecmp(u.protocol, "s3") = 0 THEN 1
          ELSE IF strcasecmp(u.protocol, "gs3") = 0 THEN 1
          ELSE IF NC_testmode(u, "s3") THEN 1
          ELSE IF NC_testmode(u, "gs3") THEN 1
          ELSE IF u.host # NULL /\ endswith(u.host, Ptr(AWSHOST)) = 1 THEN 1
          ELSE IF u.host # NULL /\ strcasecmp(Deref(u.host), GOOGLEHOST) = 0 THEN 1
          ELSE 0

\* ------------------------------------------------------------------ inputs
MaxSegs == 2

Buckets == {"mybucket", "data"}
HostRegions == {"us-west-2"}
Keys == {"a", "b"}
\* every object path of up to MaxSegs segments, and the path a/b/c
ObjectPaths == UNION {[1..k -> Keys] : k \in 0..MaxSegs} \cup {<<"a", "b", "c">>}

Shapes == {"virtual-region", "virtual", "path-region", "path", "s3", "gs3", "google"}
AmazonShapes == Shapes \ {"gs3", "google"}
RegionShapes == {"virtual-region", "path-region"}

\* the url path "/" seg1 "/" seg2 ...; "/" alone for no segment
RECURSIVE SlashPath(_)
SlashPath(segs) ==
  IF Len(segs) = 0 THEN "/"
  ELSE IF Len(segs) = 1 THEN "/" \o segs[1]
  ELSE "/" \o segs[1] \o SlashPath(Tail(segs))

URI(protocol, host, path, mode) ==
  [protocol |-> protocol, host |-> host, path |-> path, mode |-> mode]

\* the documented url shapes (1)-(7) addressing bucket b, region r, object segs
ShapeURL(shape, b, r, segs) ==
  CASE shape = "virtual-region" ->
         URI("https", Ptr(b \o ".s3." \o r \o AWSHOST), Ptr(SlashPath(segs)), << >>)
    [] shape = "virtual" ->
         URI("https", Ptr(b \o ".s3" \o AWSHOST), Ptr(SlashPath(segs)), << >>)
    [] shape = "path-region" ->
         URI("https", Ptr("s3." \o r \o AWSHOST), Ptr(SlashPath(<<b>> \o segs)), << >>)
    [] shape = "path" ->
         URI("https", Ptr("s3" \o AWSHOST), Ptr(SlashPath(<<b>> \o segs)), << >>)
    [] shape = "s3" -> URI("s3", Ptr(b), Ptr(SlashPath(segs)), << >>)
    [] shape = "gs3" -> URI("gs3", Ptr(b), Ptr(SlashPath(segs)), << >>)
    [] shape = "google" ->
         URI("https", Ptr(GOOGLEHOST), Ptr(SlashPath(<<b>> \o segs)), << >>)

ShapeURLs ==
  {ShapeURL(sh, b, r, segs) : sh \in Shapes, b \in Buckets, r \in HostRegions,
                              segs \in ObjectPaths}

\* urls outside the documented shapes, and malformed ones
OtherURLs ==
  { URI("https", Ptr("foo.bar.amazonaws.com"), Ptr("/x/y"), << >>),
    URI("https", Ptr("foo.bar.amazonaws.com"), NULL, << >>),
    URI("https", Ptr("S3.us-west-2.amazonaws.com"), Ptr("/mybucket/a"), << >>),
    URI("https", Ptr("mybucket.S3.us-west-2.amazonaws.com"), Ptr("/a"), << >>),
    URI("https", Ptr("mybucket.x3.us-west-2.amazonaws.com"), Ptr("/a"), << >>),
    URI("https", Ptr("a.mybucket.s3.us-west-2.amazonaws.com"), Ptr("/a"), << >>),
    URI("https", Ptr("x.amazonaws.com"), Ptr("/mybucket/a"), << >>),
    URI("https", Ptr("x.AMAZONAWS.COM"), Ptr("/mybucket/a"), << >>),
    URI("https", Ptr("amazonaws.com"), Ptr("/mybucket/a"), << >>),
    URI("https", Ptr("s3.amazonaws.com"), NULL, << >>),
    URI("https", Ptr("s3.amazonaws.com"), Ptr(""), << >>),
    URI("https", Ptr("mybucket.s3.amazonaws.com"), NULL, << >>),
    URI("https", Ptr("example.com"), Ptr("/mybucket/a/b"), << >>),
    URI("https", Ptr("example.com"), Ptr("/mybucket/a/"), <<"zarr">>),
    URI("https", Ptr("example.com"), Ptr("/mybucket"), <<"s3">>),
    URI("https", Ptr("example.com"), NULL, <<"zarr", "gs3">>),
    URI("https", Ptr("example.com"), Ptr("//a"), << >>),
    URI("https", Ptr("a..b"), Ptr("/mybucket/a"), << >>),
    URI("https", Ptr("Storage.GoogleAPIs.com"), Ptr("/mybucket/a"), << >>),
    URI("https", NULL, Ptr("/mybucket/a"), << >>),
    URI("https", Ptr(""), Ptr("/mybucket/a"), << >>),
    URI("S3", Ptr("mybucket"), Ptr("/a/b"), << >>),
    URI("GS3", Ptr("mybucket"), Ptr("/a"), << >>),
    URI("s3", Ptr("my.bucket"), Ptr("/a"), << >>),
    URI("file", NULL, Ptr("/tmp/a.nc"), << >>) }

URLs == {NULL} \cup {Ptr(u) : u \in ShapeURLs \cup OtherURLs}

\* what a caller's descriptor may hold beforehand: each of region and bucket
\* unset, empty or set; the other string fields all unset or all set
RECURSIVE MkFields(_, _, _, _)
MkFields(vals, d, h, i) ==
  IF i > Len(Fields) THEN [s3 |-> Ptr(d), heap |-> h]
  ELSE IF vals[Fields[i]] = NULL THEN MkFields(vals, d, h, i + 1)
  ELSE MkFields(vals, [d EXCEPT ![Fields[i]] = Len(h) + 1],
                Alloc(h, Deref(vals[Fields[i]])), i + 1)

PriorRegions == {NULL, Ptr(""), Ptr("eu-central-1")}
PriorBuckets == {NULL, Ptr(""), Ptr("prior")}

PriorValues ==
  {[host |-> IF full THEN Ptr("old.example.org") ELSE NULL,
    region |-> r, bucket |-> b,
    rootkey |-> IF full THEN Ptr("old/key") ELSE NULL,
    profile |-> IF full THEN Ptr("oldprofile") ELSE NULL] :
     r \in PriorRegions, b \in PriorBuckets, full \in BOOLEAN}

Descriptors ==
  {[s3 |-> NULL, heap |-> << >>]} \cup {MkFields(v, calloc, << >>, 1) : v \in PriorValues}

\* the outcomes of the configuration lookups
RegionLookups == {[stat |-> NC_NOERR, region0 |-> Ptr("us-east-1")],
                  [stat |-> NC_EINVAL, region0 |-> NULL]}
ProfileLookups == {[stat |-> NC_NOERR, profile0 |-> NULL],
                   [stat |-> NC_NOERR, profile0 |-> Ptr("default")],
                   [stat |-> NC_EINVAL, profile0 |-> NULL]}

\* ------------------------------------------------------------------- state
VARIABLES
  url,      \* the NCURI* argument of the call
  s3,       \* the caller's NCS3INFO* (NULL or a pointer to the descriptor)
  heap,     \* the strings allocated so far
  rc,       \* the process-wide configuration lookups
  newurl,   \* *newurlp
  news3,    \* *news3p
  stat,     \* the status returned by the last call
  iss3,     \* the value returned by NC_iss3
  op,       \* the last operation called
  s3pre     \* the caller's descriptor as it was before the last call

vars == <<url, s3, heap, rc, newurl, news3, stat, iss3, op, s3pre>>

Init ==
  /\ url \in URLs
  /\ \E d \in Descriptors : s3 = d.s3 /\ heap = d.heap
  /\ rc \in [defaults3region : RegionLookups, actives3profile : ProfileLookups]
  /\ newurl = NULL
  /\ news3 = NULL
  /\ stat = NC_NOERR
  /\ iss3 = 0
  /\ op = "init"
  /\ s3pre = s3

\* NC_s3urlrebuild(url, s3, &newurl)
Rebuild ==
  /\ op = "init"
  /\ \E r \in {NC_s3urlrebuild(url, s3, heap, rc)} :
        /\ stat' = r.stat
        /\ newurl' = r.newurl
        /\ s3' = r.s3
        /\ heap' = r.heap
  /\ s3pre' = s3
  /\ op' = "rebuild"
  /\ UNCHANGED <<url, rc, news3, iss3>>

\* a second NC_s3urlrebuild, on the url the first one returned and the
\* descriptor it left
RebuildAgain ==
  /\ op = "rebuild"
  /\ stat = NC_NOERR
  /\ \E r \in {NC_s3urlrebuild(newurl, s3, heap, rc)} :
        /\ stat' = r.stat
        /\ newurl' = r.newurl
        /\ s3' = r.s3
        /\ heap' = r.heap
  /\ url' = newurl
  /\ s3pre' = s3
  /\ op' = "rebuild2"
  /\ UNCHANGED <<rc, news3, iss3>>

\* NC_s3urlprocess(url, s3, &newurl)
Process ==
  /\ op = "init"
  /\ \E r \in {NC_s3urlprocess(url, s3, heap, rc)} :
        /\ stat' = r.stat
        /\ newurl' = r.newurl
        /\ s3' = r.s3
        /\ heap' = r.heap
  /\ s3pre' = s3
  /\ op' = "process"
  /\ UNCHANGED <<url, rc, news3, iss3>>

\* NC_iss3(url)
Iss3 ==
  /\ op = "init"
  /\ iss3' = NC_iss3(url)
  /\ op' = "iss3"
  /\ UNCHANGED <<url, s3, heap, rc, newurl, news3, stat, s3pre>>

\* NC_s3clone(s3, &news3)
Clone ==
  /\ op \in {"init", "rebuild", "process"}
  /\ \E r \in {NC_s3clone(s3, news3, heap)} :
        /\ stat' = r.stat
        /\ news3' = r.out
        /\ heap' = r.heap
  /\ s3pre' = s3
  /\ op' = "clone"
  /\ UNCHANGED <<url, s3, rc, newurl, iss3>>

\* NC_s3clear(news3)
ClearClone ==
  /\ op = "clone"
  /\ news3 # NULL
  /\ \E r \in {NC_s3clear(news3, heap)} :
        news3' = r.s3 /\ heap' = r.heap
  /\ stat' = NC_NOERR
  /\ s3pre' = s3
  /\ op' = "clearclone"
  /\ UNCHANGED <<url, s3, rc, newurl, iss3>>

\* NC_s3clear(s3)
ClearOrig ==
  /\ op = "clone"
  /\ \E r \in {NC_s3clear(s3, heap)} :
        s3' = r.s3 /\ heap' = r.heap
  /\ stat' = NC_NOERR
  /\ s3pre' = s3
  /\ op' = "clearorig"
  /\ UNCHANGED <<url, rc, newurl, news3, iss3>>

Next ==
  \/ Rebuild
  \/ RebuildAgain
  \/ Process
  \/ Iss3
  \/ Clone
  \/ ClearClone
  \/ ClearOrig

Spec == Init /\ [][Next]_vars

\* ----------------------------------------------------- the specifications
\* NC_s3urlrebuild alone, once and then again on its own result
InitRebuild == Init /\ rc.actives3profile = [stat |-> NC_NOERR, profile0 |-> NULL]
NextRebuild == Rebuild \/ RebuildAgain
SpecRebuild == InitRebuild /\ [][NextRebuild]_vars

\* NC_s3urlprocess
NextProcess == Process
SpecProcess == Init /\ [][NextProcess]_vars

\* NC_iss3
InitIss3 ==
  /\ Init
  /\ s3 = NULL
  /\ rc = [defaults3region |-> [stat |-> NC_NOERR, region0 |-> Ptr("us-east-1")],
           actives3profile |-> [stat |-> NC_NOERR, profile0 |-> NULL]]
NextIss3 == Iss3
SpecIss3 == InitIss3 /\ [][NextIss3]_vars

\* NC_s3clone and NC_s3clear, on descriptors as given and as completed by
\* NC_s3urlprocess
CloneURLs ==
  {Ptr(ShapeURL("virtual-region", "mybucket", "us-west-2", <<"a", "b">>)),
   Ptr(ShapeURL("gs3", "data", "us-west-2", << >>)),
   Ptr(URI("https", Ptr("example.com"), Ptr("/mybucket/a/b"), << >>))}
InitClone ==
  /\ Init
  /\ url \in CloneURLs
  /\ rc = [defaults3region |-> [stat |-> NC_NOERR, region0 |-> Ptr("us-east-1")],
           actives3profile |-> [stat |-> NC_NOERR, profile0 |-> Ptr("default")]]
NextClone == Process \/ Clone \/ ClearClone \/ ClearOrig
SpecClone == InitClone /\ [][NextClone]_vars

\* ------------------------------------------------------------- properties
\* a field of a descriptor, as a nullable string
Field(d, f) == Str(heap, Deref(d)[f])
PriorRegion == IF s3pre = NULL THEN NULL ELSE Field(s3pre, "region")
PriorBucket == IF s3pre = NULL THEN NULL ELSE Field(s3pre, "bucket")
DefaultRegion == rc.defaults3region.region0

HasSuffix(str, suffix) == \E k \in 0..Len(str) : SubSeq(str, k + 1, Len(str)) = suffix
IsS3Label(label) == LowerString(label) = "s3"

\* the url's host labels and path segments
HostLabels(u) == NC_split_delim(u.host, ".", << >>).list
PathSegments(u) == NC_split_delim(u.path, "/", << >>).list

\* the classification of section 4.1, step 3
IsBespoke(u) == u.protocol \in {"s3", "gs3"} /\ Len(HostLabels(u)) = 1
IsAmazon(u) == ~IsBespoke(u) /\ u.host # NULL /\ HasSuffix(Deref(u.host), AWSHOST)
HostRegion(u) ==
  IF IsAmazon(u) /\ Len(HostLabels(u)) = 5 THEN Ptr(HostLabels(u)[3])
  ELSE IF IsAmazon(u) /\ Len(HostLabels(u)) = 4 /\ IsS3Label(HostLabels(u)[1])
    THEN Ptr(HostLabels(u)[2])
  ELSE NULL
HostBucket(u) ==
  IF IsBespoke(u) THEN Ptr(HostLabels(u)[1])
  ELSE IF IsAmazon(u) /\ Len(HostLabels(u)) = 5 THEN Ptr(HostLabels(u)[1])
  ELSE IF IsAmazon(u) /\ Len(HostLabels(u)) = 4 /\ ~IsS3Label(HostLabels(u)[1])
    THEN Ptr(HostLabels(u)[1])
  ELSE NULL

\* the region a shape url is to resolve to: the host's, else the prior
\* descriptor's, else the default
ShapeRegion(sh, r) ==
  IF sh \in RegionShapes THEN Ptr(r)
  ELSE IF PriorRegion # NULL THEN PriorRegion
  ELSE DefaultRegion

\* C1: NC_s3urlrebuild applied to each of the seven documented url shapes for
\* bucket b, region r and object segments segs succeeds, whenever a region is
\* available from the host, the prior descriptor or the default lookup, and
\* returns scheme https, path "/" b "/" seg1 ... in order, and host
\* "s3." region ".amazonaws.com" (Amazon shapes) or storage.googleapis.com
\* (Google shapes).
C1_ShapesCanonical ==
  op = "rebuild" =>
    \A sh \in Shapes, b \in Buckets, r \in HostRegions, segs \in ObjectPaths :
      (url = Ptr(ShapeURL(sh, b, r, segs)) /\ ShapeRegion(sh, r) # NULL) =>
        /\ stat = NC_NOERR
        /\ newurl # NULL
        /\ Deref(newurl).protocol = "https"
        /\ Deref(newurl).path = Ptr(SlashPath(<<b>> \o segs))
        /\ Deref(newurl).host =
             IF sh \in AmazonShapes
             THEN Ptr("s3." \o Deref(ShapeRegion(sh, r)) \o AWSHOST)
             ELSE Ptr(GOOGLEHOST)

\* C1 witness: a virtual-hosted url without region, rebuilt with the region
\* of the prior descriptor
C1_Witness ==
  /\ op = "rebuild"
  /\ url = Ptr(ShapeURL("virtual", "mybucket", "us-west-2", <<"a", "b", "c">>))
  /\ PriorRegion = Ptr("eu-central-1")
  /\ stat = NC_NOERR
  /\ Deref(newurl).host = Ptr("s3.eu-central-1.amazonaws.com")
  /\ Deref(newurl).path = Ptr("/mybucket/a/b/c")

\* the region and the bucket the precedence rules give for url u
ExpectedRegion(u) ==
  IF HostRegion(u) # NULL THEN HostRegion(u)
  ELSE IF PriorRegion # NULL THEN PriorRegion
  ELSE DefaultRegion
BucketFromPath(u) == HostBucket(u) = NULL /\ Len(PathSegments(u)) > 0
ExpectedBucket(u) ==
  IF HostBucket(u) # NULL THEN HostBucket(u)
  ELSE IF BucketFromPath(u) THEN Ptr(PathSegments(u)[1])
  ELSE PriorBucket
ExpectedRest(u) ==
  IF BucketFromPath(u) THEN Tail(PathSegments(u)) ELSE PathSegments(u)

\* C2: after a successful NC_s3urlrebuild the region is the host's if the host
\* carries one, else the prior descriptor's if it has one, else the default;
\* the bucket is the host's if the host carries one, else the first path
\* segment (then no longer among the remaining segments), else the prior
\* descriptor's.
C2_Precedence ==
  (op \in {"rebuild", "rebuild2"} /\ stat = NC_NOERR) =>
    LET u == Deref(url)
    IN /\ s3 # NULL => /\ Field(s3, "region") = ExpectedRegion(u)
                       /\ Field(s3, "bucket") = ExpectedBucket(u)
       /\ Deref(newurl).path =
            Ptr(SlashPath(<<Deref(ExpectedBucket(u))>> \o ExpectedRest(u)))
       /\ (IsAmazon(u) \/ (IsBespoke(u) /\ u.protocol = "s3")) =>
            Deref(newurl).host = Ptr("s3." \o Deref(ExpectedRegion(u)) \o AWSHOST)

\* C2 witness: the host carries a region, the path a bucket, and the prior
\* descriptor holds another region and another bucket
C2_Witness ==
  /\ op = "rebuild"
  /\ stat = NC_NOERR
  /\ url = Ptr(ShapeURL("path-region", "data", "us-west-2", <<"a">>))
  /\ PriorRegion = Ptr("eu-central-1")
  /\ PriorBucket = Ptr("prior")
  /\ Field(s3, "region") = Ptr("us-west-2")
  /\ Field(s3, "bucket") = Ptr("data")

\* C3: a 4-label host ending in .amazonaws.com is accepted only as
\* bucket.s3.amazonaws.com (first label not "s3", second label "s3") or as
\* s3.<region>.amazonaws.com (first label "s3"); any other such host is
\* refused.
C3_FourLabelHost ==
  (/\ op = "rebuild"
   /\ url # NULL
   /\ Deref(url).host # NULL
   /\ HasSuffix(Deref(Deref(url).host), AWSHOST)
   /\ Len(HostLabels(Deref(url))) = 4
   /\ stat = NC_NOERR)
  => \/ IsS3Label(HostLabels(Deref(url))[1])
     \/ IsS3Label(HostLabels(Deref(url))[2])

\* C4: when NC_s3urlprocess returns an error the output url is not set and no
\* field of the caller's descriptor has been written.
C4_NoPartialResult ==
  (op = "process" /\ stat # NC_NOERR) => (newurl = NULL /\ s3 = s3pre)

\* C5: after a successful NC_s3urlprocess the descriptor's region and bucket
\* are both non-empty strings.
C5_NonEmpty ==
  (op = "process" /\ stat = NC_NOERR) =>
    /\ Field(s3, "region") \notin {NULL, Ptr("")}
    /\ Field(s3, "bucket") \notin {NULL, Ptr("")}

\* C6: NC_s3urlrebuild applied to the url it returned, with the descriptor it
\* left, succeeds and returns the same scheme, host and path, bucket and
\* region.
C6_Idempotent ==
  op = "rebuild2" =>
    /\ stat = NC_NOERR
    /\ newurl # NULL
    /\ Deref(newurl).protocol = Deref(url).protocol
    /\ Deref(newurl).host = Deref(url).host
    /\ Deref(newurl).path = Deref(url).path
    /\ s3 # NULL => /\ Field(s3, "bucket") = Field(s3pre, "bucket")
                    /\ Field(s3, "region") = Field(s3pre, "region")

\* C6 restricted to calls whose resolved region is not the empty string
C6_IdempotentNonEmptyRegion ==
  (op = "rebuild2" /\ (s3pre # NULL => Field(s3pre, "region") # Ptr("")))
    => C6_Idempotent

AllLive(d) ==
  \A i \in 1..Len(Fields) :
    Deref(d)[Fields[i]] # NIL => heap[Deref(d)[Fields[i]]].live

\* C8: NC_s3clone of any descriptor returns success and a descriptor whose
\* host, region, bucket, rootkey, profile and svc equal the original's (unset
\* stays unset), held in storage of its own: clearing the clone leaves the
\* original as it was, and clearing the original leaves the clone as it was.
C8_DeepCopy ==
  /\ (op = "clone" /\ s3 # NULL) =>
       /\ stat = NC_NOERR
       /\ news3 # NULL
       /\ \A i \in 1..Len(Fields) :
            /\ Field(news3, Fields[i]) = Field(s3, Fields[i])
            /\ Deref(s3)[Fields[i]] # NIL =>
                 Deref(news3)[Fields[i]] # Deref(s3)[Fields[i]]
       /\ Deref(news3).svc = Deref(s3).svc
  /\ (op = "clearclone" /\ s3 # NULL) => (s3 = s3pre /\ AllLive(s3))
  /\ (op = "clearorig" /\ news3 # NULL) => AllLive(news3)

\* C9: NC_iss3 returns true exactly when the scheme is "s3" or "gs3" in any
\* letter case, or the mode list contains "s3" or "gs3", or the host is
\* present and ends with ".amazonaws.com", or the host is present and equals
\* storage.googleapis.com in any letter case; false for a null url.
C9_Iss3 ==
  op = "iss3" =>
    /\ iss3 \in {0, 1}
    /\ iss3 = 1 <=>
         /\ url # NULL
         /\ \/ LowerString(Deref(url).protocol) \in {"s3", "gs3"}
            \/ \E i \in 1..Len(Deref(url).mode) : Deref(url).mode[i] \in {"s3", "gs3"}
            \/ /\ Deref(url).host # NULL
               /\ HasSuffix(Deref(Deref(url).host), AWSHOST)
            \/ /\ Deref(url).host # NULL
               /\ LowerString(Deref(Deref(url).host)) = LowerString(GOOGLEHOST)
    /\ url = Ptr(URI("https", Ptr("example.com"), Ptr("/mybucket/a/b"), << >>))
         => iss3 = 0

\* C9 witness: an upper-case bespoke scheme on a host that is no S3 host
C9_Witness ==
  /\ op = "iss3"
  /\ url = Ptr(URI("S3", Ptr("mybucket"), Ptr("/a/b"), << >>))
  /\ iss3 = 1

\* C10: for a url with a single host label whose scheme is "s3" or "gs3" in
\* any letter case, a successful NC_s3urlrebuild takes the host label as the
\* bucket, keeps every path segment, and sets the service kind to S3 or
\* Google-S3.
C10_BespokeAnyCase ==
  (/\ op = "rebuild"
   /\ stat = NC_NOERR
   /\ LowerString(Deref(url).protocol) \in {"s3", "gs3"}
   /\ Len(HostLabels(Deref(url))) = 1)
  => /\ Deref(newurl).path =
          Ptr(SlashPath(<<HostLabels(Deref(url))[1]>> \o PathSegments(Deref(url))))
     /\ s3 # NULL =>
          /\ Field(s3, "bucket") = Ptr(HostLabels(Deref(url))[1])
          /\ Deref(s3).svc = IF LowerString(Deref(url).protocol) = "s3"
                             THEN NCS3 ELSE NCS3GS

====
